---- MODULE Spec2Model ----
(***************************************************************************)
(* Supermarket receipt kata (python): ShoppingCart, Teller and the         *)
(* discount rules of ShoppingCart.handle_offers.                           *)
(*                                                                         *)
(* Numbers.  Quantities are multiples of 1/QDen, stored as their numerator *)
(* (with QDen = 2 the value 5 is the quantity 2.5).  Unit prices and offer *)
(* arguments are whole numbers.  Money amounts are stored as numerators    *)
(* over AmtDen = QDen * PercentBase, which makes every product and the     *)
(* division by 100.0 of the percentage rule exact; binary floating point   *)
(* rounding is not modelled.                                               *)
(*                                                                         *)
(* Python values.  None is the string "None".  A dict is a sequence of     *)
(* [key, value] records with distinct keys, in insertion order, which is   *)
(* the order python iterates it in.  An optional value (an offer argument  *)
(* passed in, a Discount or None, a returned value) is a sequence of       *)
(* length 0 (None) or 1.                                                    *)
(*                                                                         *)
(* Collaborators.  model_objects, receipt and tests/fake_catalog are       *)
(* imported by the sources but are not among them.  Their data classes     *)
(* are records with the fields the sources read; a Discount object is      *)
(* true in `if discount:`; Receipt keeps two lists, appended to by         *)
(* add_product and add_discount, and total_price() sums them; the          *)
(* catalog's unit_price raises KeyError for a product it does not hold.    *)
(*                                                                         *)
(* ret is the outcome of the latest call.  Every call replaces it, so a    *)
(* state whose ret.op is checks_out_articles_from still has the cart, the  *)
(* offers and the catalog that checkout ran on.                            *)
(***************************************************************************)
EXTENDS Integers, Sequences, FiniteSets, TLC

VARIABLES items, product_quantities, offers, catalog, registered, ret

vars == <<items, product_quantities, offers, catalog, registered, ret>>

\* ---------------------------------------------------------------- bounds
MaxItems == 2
MaxRegistrations == 2
QDen == 2

\* ------------------------------------------------------------- constants
PercentBase == 100
AmtDen == QDen * PercentBase

None == "None"
Products == {"apples", "toothbrush"}
ProductInputs == Products \cup {None}
\* quantities passed to add_item_quantity: -1.0, 0, 1.5 and 3.0 when QDen = 2
\* (add_item adds 1.0)
QtyInputs == {-QDen, 0, (3 * QDen) \div 2, 3 * QDen}
\* the catalogs a Teller is constructed with: this price list, and the same
\* without the toothbrush
PriceList == [apples |-> 2, toothbrush |-> 3]
Catalogs == {PriceList, [p \in {"apples"} |-> PriceList[p]]}
OfferTypes == {"THREE_FOR_TWO", "TWO_FOR_AMOUNT", "FIVE_FOR_AMOUNT", "TEN_PERCENT_DISCOUNT"}
ArgNumbers == {0, 150}
\* an offer argument as passed to add_special_offer: an optional number
NoArgument == <<>>
ArgInputs == {NoArgument} \cup {<<a>> : a \in ArgNumbers}

\* ------------------------------------------------------------ python dict
DictKeys(d) == {d[i].key : i \in 1..Len(d)}

DictHas(d, k) == \E i \in 1..Len(d) : d[i].key = k

DictGet(d, k) == d[CHOOSE i \in 1..Len(d) : d[i].key = k].value

DictSet(d, k, v) ==
    IF DictHas(d, k)
    THEN [i \in 1..Len(d) |-> IF d[i].key = k THEN [key |-> k, value |-> v] ELSE d[i]]
    ELSE Append(d, [key |-> k, value |-> v])

\* python int() of a non-negative quantity: truncation
floor(quantity) == quantity \div QDen

\* ------------------------------------------------------------ ShoppingCart
ProductQuantity(product, quantity) == [product |-> product, quantity |-> quantity]

Discount(product, description, discount_amount) ==
    [product |-> product, description |-> description, discount_amount |-> discount_amount]

Offer(offer_type, product, argument) ==
    [offer_type |-> offer_type, product |-> product, argument |-> argument]

\* the outcome of a call: the exception it raised ("" when it returned), the
\* exception's message, and the value it returned (an optional)
Returned(op, value) == [op |-> op, raised |-> "", error |-> "", value |-> value]
Raised(op, exc, msg) == [op |-> op, raised |-> exc, error |-> msg, value |-> <<>>]

\* add_item_quantity, overwriting the aggregated quantity of a product
\* that is already in the cart
add_item_quantity_call_overwriting(its, pq, product, quantity) ==
    IF quantity <= 0
    THEN [items |-> its, product_quantities |-> pq,
          raised |-> "ValueError", error |-> "Quantity must be positive"]
    ELSE IF product = None
    THEN [items |-> its, product_quantities |-> pq,
          raised |-> "ValueError", error |-> "please provide a valid product"]
    ELSE [items |-> Append(its, ProductQuantity(product, quantity)),
          product_quantities |-> DictSet(pq, product, quantity),
          raised |-> "", error |-> ""]

\* add_item_quantity, rejecting only the negative quantities
add_item_quantity_call_accepting_zero(its, pq, product, quantity) ==
    IF quantity < 0
    THEN [items |-> its, product_quantities |-> pq,
          raised |-> "ValueError", error |-> "Quantity must be positive"]
    ELSE IF product = None
    THEN [items |-> its, product_quantities |-> pq,
          raised |-> "ValueError", error |-> "please provide a valid product"]
    ELSE [items |-> Append(its, ProductQuantity(product, quantity)),
          product_quantities |->
              IF DictHas(pq, product)
              THEN DictSet(pq, product, DictGet(pq, product) + quantity)
              ELSE DictSet(pq, product, quantity),
          raised |-> "", error |-> ""]

\* ShoppingCart.add_item_quantity on a cart (its, pq): the cart it leaves and
\* the exception it raises
add_item_quantity_call(its, pq, product, quantity) ==
    IF quantity <= 0
    THEN [items |-> its, product_quantities |-> pq,
          raised |-> "ValueError", error |-> "Quantity must be positive"]
    ELSE IF product = None
    THEN [items |-> its, product_quantities |-> pq,
          raised |-> "ValueError", error |-> "please provide a valid product"]
    ELSE [items |-> Append(its, ProductQuantity(product, quantity)),
          product_quantities |->
              IF DictHas(pq, product)
              THEN DictSet(pq, product, DictGet(pq, product) + quantity)
              ELSE DictSet(pq, product, quantity),
          raised |-> "", error |-> ""]

\* FakeCatalog.unit_price: the price of a product, KeyError when it has none
HasPrice(cat, product) == product \in DOMAIN cat

unit_price(cat, product) == cat[product]

\* _calculate_percentage_discount, with the amount not negated
_calculate_percentage_discount_unsigned(product, quantity, price, percentage) ==
    IF percentage > 0
    THEN <<Discount(product, ToString(percentage) \o "% off",
                    quantity * price * percentage)>>
    ELSE <<>>

_calculate_percentage_discount(product, quantity, price, percentage) ==
    IF percentage > 0
    THEN <<Discount(product, ToString(percentage) \o "% off",
                    -(quantity * price * percentage))>>
    ELSE <<>>

\* _calculate_three_for_two_discount, applying from two units on
_calculate_three_for_two_discount_from_two(product, quantity, price) ==
    IF quantity >= 2
    THEN LET number_of_threes == quantity \div 3
             discount_amount == number_of_threes * price
         IN  <<Discount(product, "3 for 2", -(discount_amount * AmtDen))>>
    ELSE <<>>

\* quantity is the truncated quantity here, a whole number of units
_calculate_three_for_two_discount(product, quantity, price) ==
    IF quantity > 2
    THEN LET number_of_threes == quantity \div 3
             discount_amount == number_of_threes * price
         IN  <<Discount(product, "3 for 2", -(discount_amount * AmtDen))>>
    ELSE <<>>

\* _calculate_discount, passing the truncated quantity to the percentage rule
_calculate_discount_truncating(product, quantity, offer, cat) ==
    LET price == unit_price(cat, product)
        quantity_as_int == floor(quantity)
    IN  IF offer.offer_type = "THREE_FOR_TWO"
        THEN [raised |-> "",
              value |-> _calculate_three_for_two_discount(product, quantity_as_int, price)]
        ELSE IF offer.offer_type = "TWO_FOR_AMOUNT"
        THEN [raised |-> "AttributeError", value |-> <<>>]
        ELSE IF offer.offer_type = "FIVE_FOR_AMOUNT"
        THEN [raised |-> "AttributeError", value |-> <<>>]
        ELSE IF offer.offer_type = "TEN_PERCENT_DISCOUNT"
        THEN [raised |-> "",
              value |-> _calculate_percentage_discount(product, quantity_as_int * QDen,
                                                       price, offer.argument)]
        ELSE [raised |-> "", value |-> <<>>]

\* ShoppingCart._calculate_discount: the optional Discount, or the exception.
\* _calculate_two_for_amount_discount and _calculate_five_for_amount_discount
\* are called but defined nowhere: looking them up raises AttributeError.
_calculate_discount(product, quantity, offer, cat) ==
    LET price == unit_price(cat, product)
        quantity_as_int == floor(quantity)
    IN  IF offer.offer_type = "THREE_FOR_TWO"
        THEN [raised |-> "",
              value |-> _calculate_three_for_two_discount(product, quantity_as_int, price)]
        ELSE IF offer.offer_type = "TWO_FOR_AMOUNT"
        THEN [raised |-> "AttributeError", value |-> <<>>]
        ELSE IF offer.offer_type = "FIVE_FOR_AMOUNT"
        THEN [raised |-> "AttributeError", value |-> <<>>]
        ELSE IF offer.offer_type = "TEN_PERCENT_DISCOUNT"
        THEN [raised |-> "",
              value |-> _calculate_percentage_discount(product, quantity, price,
                                                       offer.argument)]
        ELSE [raised |-> "", value |-> <<>>]

\* the loop of ShoppingCart.handle_offers from the i-th key of the dict on:
\* discount is the loop's local, set before the loop and assigned only for a
\* product that has an offer; discounts is receipt.discounts so far
RECURSIVE handle_offers_loop(_, _, _, _, _, _)
handle_offers_loop(pq, i, discount, discounts, offs, cat) ==
    IF i > Len(pq)
    THEN [raised |-> "", discounts |-> discounts]
    ELSE LET product == pq[i].key
             quantity == pq[i].value
             has == product \in DOMAIN offs
             r == IF has
                  THEN _calculate_discount(product, quantity, offs[product], cat)
                  ELSE [raised |-> "", value |-> discount]
         IN  IF r.raised # ""
             THEN [raised |-> r.raised, discounts |-> discounts]
             ELSE handle_offers_loop(pq, i + 1, r.value,
                                     IF r.value # <<>> THEN discounts \o r.value
                                                       ELSE discounts,
                                     offs, cat)

handle_offers(pq, offs, cat) == handle_offers_loop(pq, 1, <<>>, <<>>, offs, cat)

\* ------------------------------------------------------------------ Receipt
ReceiptItem(product, quantity, price, total_price) ==
    [product |-> product, quantity |-> quantity, price |-> price,
     total_price |-> total_price]

Receipt(its, discounts) == [items |-> its, discounts |-> discounts]

RECURSIVE SumTotalPrice(_)
SumTotalPrice(its) ==
    IF its = <<>> THEN 0 ELSE Head(its).total_price + SumTotalPrice(Tail(its))

RECURSIVE SumDiscountAmount(_)
SumDiscountAmount(discounts) ==
    IF discounts = <<>> THEN 0
    ELSE Head(discounts).discount_amount + SumDiscountAmount(Tail(discounts))

total_price(receipt) == SumTotalPrice(receipt.items) + SumDiscountAmount(receipt.discounts)

\* ------------------------------------------------------------------- Teller
\* the first loop, with the unit price as the line's total price
RECURSIVE add_products_unit_total(_, _)
add_products_unit_total(its, cat) ==
    IF its = <<>> THEN <<>>
    ELSE LET pq == Head(its)
             p == pq.product
             quantity == pq.quantity
             price == unit_price(cat, p) IN
         <<ReceiptItem(p, quantity, price, price * AmtDen)>>
             \o add_products_unit_total(Tail(its), cat)

\* the first loop, with the truncated quantity on the line
RECURSIVE add_products_truncating(_, _)
add_products_truncating(its, cat) ==
    IF its = <<>> THEN <<>>
    ELSE LET pq == Head(its)
             p == pq.product
             quantity == floor(pq.quantity) * QDen
             price == unit_price(cat, p) IN
         <<ReceiptItem(p, quantity, price, quantity * price * PercentBase)>>
             \o add_products_truncating(Tail(its), cat)

\* the first loop of checks_out_articles_from: one receipt item per cart entry
RECURSIVE add_products(_, _)
add_products(its, cat) ==
    IF its = <<>> THEN <<>>
    ELSE LET pq == Head(its)
             p == pq.product
             quantity == pq.quantity
             price == unit_price(cat, p) IN
         <<ReceiptItem(p, quantity, price, quantity * price * PercentBase)>>
             \o add_products(Tail(its), cat)

\* checks_out_articles_from, leaving out the entries the catalog has no price
\* for instead of failing
checks_out_articles_from_skipping(its, pq, offs, cat) ==
    LET priced == SelectSeq(its, LAMBDA e : HasPrice(cat, e.product))
        pqPriced == SelectSeq(pq, LAMBDA e : HasPrice(cat, e.key))
        h == handle_offers(pqPriced, offs, cat) IN
    IF h.raised # ""
    THEN Raised("checks_out_articles_from", h.raised, "")
    ELSE Returned("checks_out_articles_from",
                  <<Receipt(add_products(priced, cat), h.discounts)>>)

checks_out_articles_from(its, pq, offs, cat) ==
    IF \E i \in 1..Len(its) : ~HasPrice(cat, its[i].product)
    THEN Raised("checks_out_articles_from", "KeyError",
                its[CHOOSE i \in 1..Len(its) :
                        /\ ~HasPrice(cat, its[i].product)
                        /\ \A j \in 1..(i - 1) : HasPrice(cat, its[j].product)].product)
    ELSE LET h == handle_offers(pq, offs, cat) IN
         IF h.raised # ""
         THEN Raised("checks_out_articles_from", h.raised, "")
         ELSE Returned("checks_out_articles_from",
                       <<Receipt(add_products(its, cat), h.discounts)>>)

\* add_special_offer, testing only the argument
add_special_offer_call_any_product(offs, offer_type, product, argument) ==
    IF argument = NoArgument
    THEN [offers |-> offs, raised |-> "ValueError",
          error |-> "offer argument cannot be None"]
    ELSE [offers |-> [p \in DOMAIN offs \cup {product} |->
                         IF p = product THEN Offer(offer_type, product, argument[1])
                         ELSE offs[p]],
          raised |-> "", error |-> ""]

\* Teller.add_special_offer: the registry it leaves and the exception it raises
add_special_offer_call(offs, offer_type, product, argument) ==
    IF product = None
    THEN [offers |-> offs, raised |-> "ValueError", error |-> "product cannot be None"]
    ELSE IF argument = NoArgument
    THEN [offers |-> offs, raised |-> "ValueError",
          error |-> "offer argument cannot be None"]
    ELSE [offers |-> [p \in DOMAIN offs \cup {product} |->
                         IF p = product THEN Offer(offer_type, product, argument[1])
                         ELSE offs[p]],
          raised |-> "", error |-> ""]

\* -------------------------------------------------------------------- state
Init ==
    /\ items = <<>>
    /\ product_quantities = <<>>
    /\ offers = <<>>
    /\ catalog \in Catalogs
    /\ registered = <<>>
    /\ ret = Returned("__init__", <<>>)

\* the same program, observed: registered holds, for each product, the number
\* of add_special_offer calls that registered an offer for it and the offer the
\* latest of them was called with
InitRegistered ==
    /\ items = <<>>
    /\ product_quantities = <<>>
    /\ offers = <<>>
    /\ catalog \in Catalogs
    /\ registered = [p \in Products |-> [calls |-> 0, latest |-> <<>>]]
    /\ ret = Returned("__init__", <<>>)

add_item_quantity(product, quantity) ==
    LET r == add_item_quantity_call(items, product_quantities, product, quantity) IN
    /\ r.raised = "" => Len(items) < MaxItems
    /\ items' = r.items
    /\ product_quantities' = r.product_quantities
    /\ ret' = IF r.raised = "" THEN Returned("add_item_quantity", <<>>)
              ELSE Raised("add_item_quantity", r.raised, r.error)
    /\ UNCHANGED <<offers, catalog, registered>>

\* add_item(product) is add_item_quantity(product, 1.0)
add_item(product) ==
    LET r == add_item_quantity_call(items, product_quantities, product, QDen) IN
    /\ r.raised = "" => Len(items) < MaxItems
    /\ items' = r.items
    /\ product_quantities' = r.product_quantities
    /\ ret' = IF r.raised = "" THEN Returned("add_item", <<>>)
              ELSE Raised("add_item", r.raised, r.error)
    /\ UNCHANGED <<offers, catalog, registered>>

add_special_offer(offer_type, product, argument) ==
    LET r == add_special_offer_call(offers, offer_type, product, argument) IN
    /\ (r.raised = "" /\ product \in DOMAIN registered)
           => registered[product].calls < MaxRegistrations
    /\ offers' = r.offers
    /\ registered' = IF r.raised = "" /\ product \in DOMAIN registered
                     THEN [registered EXCEPT ![product] =
                              [calls |-> @.calls + 1,
                               latest |-> <<Offer(offer_type, product, argument[1])>>]]
                     ELSE registered
    /\ ret' = IF r.raised = "" THEN Returned("add_special_offer", <<>>)
              ELSE Raised("add_special_offer", r.raised, r.error)
    /\ UNCHANGED <<items, product_quantities, catalog>>

\* checks_out_articles_from, adding to the receipt of the checkout before it
\* instead of building a new one
checkout_shared_receipt ==
    LET r == checks_out_articles_from(items, product_quantities, offers, catalog) IN
    /\ ret' = IF r.raised = "" /\ ret.op = "checks_out_articles_from" /\ ret.raised = ""
              THEN Returned("checks_out_articles_from",
                            <<Receipt(ret.value[1].items \o r.value[1].items,
                                      ret.value[1].discounts \o r.value[1].discounts)>>)
              ELSE r
    /\ UNCHANGED <<items, product_quantities, offers, catalog, registered>>

checkout ==
    /\ ret' = checks_out_articles_from(items, product_quantities, offers, catalog)
    /\ UNCHANGED <<items, product_quantities, offers, catalog, registered>>

Next ==
    \/ \E product \in ProductInputs, quantity \in QtyInputs :
           add_item_quantity(product, quantity)
    \/ \E product \in ProductInputs : add_item(product)
    \/ \E offer_type \in OfferTypes, product \in ProductInputs, argument \in ArgInputs :
           add_special_offer(offer_type, product, argument)
    \/ checkout

Spec == Init /\ [][Next]_vars

SpecRegistered == InitRegistered /\ [][Next]_vars

\* a ShoppingCart on its own: only its two methods are called
NextCart ==
    \/ \E product \in ProductInputs, quantity \in QtyInputs :
           add_item_quantity(product, quantity)
    \/ \E product \in ProductInputs : add_item(product)

SpecCart == Init /\ [][NextCart]_vars

\* a Teller on its own, with an empty cart: only its two methods are called
NextTeller ==
    \/ \E offer_type \in OfferTypes, product \in ProductInputs, argument \in ArgInputs :
           add_special_offer(offer_type, product, argument)
    \/ checkout

SpecTeller == Init /\ [][NextTeller]_vars

\* ------------------------------------------------------------------ claims
Checkout == "checks_out_articles_from"

CartAdds == {"add_item", "add_item_quantity"}

\* the sum of the quantities of the entries of its whose product is p
RECURSIVE QuantityOf(_, _)
QuantityOf(its, p) ==
    IF its = <<>> THEN 0
    ELSE (IF Head(its).product = p THEN Head(its).quantity ELSE 0)
             + QuantityOf(Tail(its), p)

InCart(p) == \E i \in 1..Len(items) : items[i].product = p

AllPriced == \A i \in 1..Len(items) : items[i].product \in DOMAIN catalog

\* the positions of the receipt's discounts that are for product p
DiscountsFor(receipt, p) ==
    {i \in 1..Len(receipt.discounts) : receipt.discounts[i].product = p}

\* C1: a receipt returned by a checkout holds at most one Discount per
\* product.  The code appends the previous product's Discount again for every
\* following product that has no offer.
C1_AtMostOneDiscountPerProduct ==
    (ret.op = Checkout /\ ret.raised = "")
        => \A p \in Products : Cardinality(DiscountsFor(ret.value[1], p)) <= 1

\* C2: after any sequence of add_item / add_item_quantity calls, accepted or
\* rejected, product_quantities has a key for exactly the products that have
\* an entry in items, and its value is the sum of those entries' quantities.
C2_AggregatedQuantities ==
    \A p \in Products :
        /\ DictHas(product_quantities, p) <=> InCart(p)
        /\ Cardinality({i \in 1..Len(product_quantities) :
                            product_quantities[i].key = p}) <= 1
        /\ DictHas(product_quantities, p)
               => DictGet(product_quantities, p) = QuantityOf(items, p)

\* two entries of one product, then a rejected call
C2_Witness ==
    /\ Len(items) = 2
    /\ items[1].product = items[2].product
    /\ ret.op \in CartAdds
    /\ ret.raised = "ValueError"

\* C3: add_item_quantity with a quantity <= 0 raises ValueError("Quantity must
\* be positive") whatever the product is (None included) and leaves the cart's
\* entries and aggregated quantities as they were.
C3_NonPositiveQuantityRejected ==
    [][\A product \in ProductInputs, quantity \in QtyInputs :
          (quantity <= 0 /\ add_item_quantity(product, quantity))
              => /\ ret'.raised = "ValueError"
                 /\ ret'.error = "Quantity must be positive"
                 /\ items' = items
                 /\ product_quantities' = product_quantities]_vars

\* a rejected quantity on a cart that already holds entries
C3_Witness ==
    /\ ret.op = "add_item_quantity"
    /\ ret.error = "Quantity must be positive"
    /\ Len(items) = MaxItems - 1

\* C4: a checkout of a cart with an entry whose product the catalog does not
\* hold raises KeyError and returns no receipt, wherever the entry is in the
\* cart and whatever offers are registered.
C4_UnknownProductFails ==
    (ret.op = Checkout /\ ~AllPriced)
        => /\ ret.raised = "KeyError"
           /\ ret.value = <<>>

\* the unknown product comes last, after a priced product with an offer
C4_Witness ==
    /\ ret.op = Checkout
    /\ Len(items) = 2
    /\ items[1].product \in DOMAIN catalog
    /\ items[2].product \notin DOMAIN catalog
    /\ items[1].product \in DOMAIN offers

\* the discount rules as the specification words them: whether an offer
\* applies to the aggregated quantity q (a numerator over QDen), and the
\* amount (a numerator over AmtDen) at unit price u
Threshold(offer) ==
    IF offer.offer_type = "THREE_FOR_TWO" THEN 3
    ELSE IF offer.offer_type = "TWO_FOR_AMOUNT" THEN 2
    ELSE IF offer.offer_type = "FIVE_FOR_AMOUNT" THEN 5
    ELSE 0

Applies(offer, q) ==
    IF offer.offer_type = "TEN_PERCENT_DISCOUNT" THEN offer.argument > 0
    ELSE q >= Threshold(offer) * QDen

NForAmount(n, argument, q, u) ==
    ((q \div QDen) \div n) * argument * AmtDen
        + ((q \div QDen) % n) * u * AmtDen
        - q * u * PercentBase

Amount(offer, q, u) ==
    IF offer.offer_type = "THREE_FOR_TWO" THEN -(((q \div QDen) \div 3) * u * AmtDen)
    ELSE IF offer.offer_type = "TWO_FOR_AMOUNT" THEN NForAmount(2, offer.argument, q, u)
    ELSE IF offer.offer_type = "FIVE_FOR_AMOUNT" THEN NForAmount(5, offer.argument, q, u)
    ELSE -(q * u * offer.argument)

\* the products of the cart that have an offer of one of the types
Offered(types) ==
    {p \in Products : InCart(p) /\ p \in DOMAIN offers /\ offers[p].offer_type \in types}

\* C5: once two offers have been registered for a product, the registry holds
\* exactly the latest of them for it, and a checkout of a cart that holds the
\* product above that offer's threshold returns exactly one Discount for the
\* product, with the amount of the latest offer.
C5_LatestOfferWins ==
    \A p \in DOMAIN registered :
        registered[p].calls >= 2
            => /\ p \in DOMAIN offers
               /\ <<offers[p]>> = registered[p].latest
               /\ (/\ ret.op = Checkout
                   /\ AllPriced
                   /\ InCart(p)
                   /\ Applies(registered[p].latest[1], QuantityOf(items, p)))
                      => /\ ret.raised = ""
                         /\ Cardinality(DiscountsFor(ret.value[1], p)) = 1
                         /\ \A i \in DiscountsFor(ret.value[1], p) :
                                ret.value[1].discounts[i].discount_amount
                                    = Amount(registered[p].latest[1],
                                             QuantityOf(items, p), catalog[p])

\* the sum of quantity x unit price over the entries of its
RECURSIVE CartTotal(_, _)
CartTotal(its, cat) ==
    IF its = <<>> THEN 0
    ELSE Head(its).quantity * cat[Head(its).product] * PercentBase
             + CartTotal(Tail(its), cat)

\* C6: when no product of the cart has a registered offer, a successful
\* checkout returns a receipt without discounts whose total_price() is the sum
\* of quantity x unit price over the cart's entries.
C6_NoOfferNoDiscount ==
    (ret.op = Checkout /\ ret.raised = "" /\ Offered(OfferTypes) = {})
        => /\ ret.value[1].discounts = <<>>
           /\ total_price(ret.value[1]) = CartTotal(items, catalog)

\* two entries, and a percentage offer registered for the product that is
\* not in the cart
C6_Witness ==
    /\ ret.op = Checkout
    /\ ret.raised = ""
    /\ Len(items) = 2
    /\ Offered(OfferTypes) = {}
    /\ \E p \in DOMAIN offers :
           offers[p].offer_type = "TEN_PERCENT_DISCOUNT" /\ offers[p].argument > 0

\* C7: a successful checkout returns one line item per cart entry, in the
\* entries' order, each with the entry's product, its exact quantity, the
\* catalog's unit price and quantity x unit price as total price.
C7_OneLinePerEntry ==
    (ret.op = Checkout /\ ret.raised = "")
        => /\ Len(ret.value[1].items) = Len(items)
           /\ \A i \in 1..Len(items) :
                  ret.value[1].items[i] =
                      [product |-> items[i].product,
                       quantity |-> items[i].quantity,
                       price |-> catalog[items[i].product],
                       total_price |-> items[i].quantity * catalog[items[i].product]
                                           * PercentBase]

\* two entries of one product, one of them a fractional quantity
C7_Witness ==
    /\ ret.op = Checkout
    /\ ret.raised = ""
    /\ Len(items) = 2
    /\ items[1].product = items[2].product
    /\ items[1].quantity # items[2].quantity
    /\ \E i \in 1..2 : items[i].quantity % QDen # 0

\* C8: after a successful checkout, a product with a THREE_FOR_TWO offer and
\* aggregated quantity q has a Discount in the receipt exactly when
\* floor(q) > 2, and every Discount for it is "3 for 2" with amount
\* -((floor(q) // 3) x unit price).
C8_ThreeForTwo ==
    (ret.op = Checkout /\ ret.raised = "")
        => \A p \in Offered({"THREE_FOR_TWO"}) :
               LET q == QuantityOf(items, p)
                   ds == DiscountsFor(ret.value[1], p) IN
               /\ ds # {} <=> floor(q) > 2
               /\ \A i \in ds :
                      ret.value[1].discounts[i] =
                          [product |-> p, description |-> "3 for 2",
                           discount_amount |-> -((floor(q) \div 3) * catalog[p] * AmtDen)]

\* two entries, each below three units, that together reach the threshold
C8_Witness ==
    /\ ret.op = Checkout
    /\ ret.raised = ""
    /\ Len(items) = 2
    /\ \E p \in Offered({"THREE_FOR_TWO"}) :
           /\ \A i \in 1..2 : items[i].product = p /\ floor(items[i].quantity) <= 2
           /\ DiscountsFor(ret.value[1], p) # {}

\* C9: a checkout of a cart whose products all have a price succeeds, and a
\* product with a TWO_FOR_AMOUNT (N = 2) or FIVE_FOR_AMOUNT (N = 5) offer with
\* argument A and aggregated quantity q has a Discount exactly when
\* floor(q) >= N, with amount (floor(q) // N) x A + (floor(q) % N) x U - q x U.
C9_NForAmount ==
    (ret.op = Checkout /\ AllPriced)
        => \A p \in Offered({"TWO_FOR_AMOUNT", "FIVE_FOR_AMOUNT"}) :
               LET q == QuantityOf(items, p) IN
               /\ ret.raised = ""
               /\ DiscountsFor(ret.value[1], p) # {} <=> Applies(offers[p], q)
               /\ \A i \in DiscountsFor(ret.value[1], p) :
                      ret.value[1].discounts[i].discount_amount
                          = Amount(offers[p], q, catalog[p])

\* C10: after a successful checkout, a product with a TEN_PERCENT_DISCOUNT
\* offer with argument P and aggregated quantity q has a Discount in the
\* receipt exactly when P > 0, and every Discount for it has the amount
\* -(q x unit price x P / 100), q not truncated.
C10_Percentage ==
    (ret.op = Checkout /\ ret.raised = "")
        => \A p \in Offered({"TEN_PERCENT_DISCOUNT"}) :
               LET q == QuantityOf(items, p)
                   ds == DiscountsFor(ret.value[1], p) IN
               /\ ds # {} <=> offers[p].argument > 0
               /\ \A i \in ds :
                      /\ ret.value[1].discounts[i].product = p
                      /\ ret.value[1].discounts[i].discount_amount
                             = -(q * catalog[p] * offers[p].argument)

\* a fractional aggregated quantity and a percentage other than 10
C10_Witness ==
    /\ ret.op = Checkout
    /\ ret.raised = ""
    /\ \E p \in Offered({"TEN_PERCENT_DISCOUNT"}) :
           /\ QuantityOf(items, p) % QDen # 0
           /\ offers[p].argument \notin {0, 10}
           /\ DiscountsFor(ret.value[1], p) # {}

\* C11: add_special_offer with a None product or a None argument raises
\* ValueError for every offer type, THREE_FOR_TWO included, and leaves the
\* registry as it was: an offer registered before stays the active one.
C11_NullOfferSpecRejected ==
    [][\A offer_type \in OfferTypes, product \in ProductInputs, argument \in ArgInputs :
          ((product = None \/ argument = NoArgument)
              /\ add_special_offer(offer_type, product, argument))
              => /\ ret'.raised = "ValueError"
                 /\ ret'.error \in {"product cannot be None",
                                    "offer argument cannot be None"}
                 /\ offers' = offers]_vars

\* a rejected call on a registry that holds an offer for each product
C11_Witness ==
    /\ ret.op = "add_special_offer"
    /\ ret.raised = "ValueError"
    /\ DOMAIN offers = Products

\* C12: registering a TWO_FOR_AMOUNT or FIVE_FOR_AMOUNT offer with a None
\* argument raises nothing and registers the offer (which then gives no
\* Discount at checkout).  The code rejects the registration, so no offer
\* without an argument ever reaches a checkout.
C12_NullAmountRegisters ==
    [][\A offer_type \in {"TWO_FOR_AMOUNT", "FIVE_FOR_AMOUNT"}, product \in Products :
          add_special_offer(offer_type, product, NoArgument)
              => /\ ret'.raised = ""
                 /\ product \in DOMAIN offers'
                 /\ offers'[product].offer_type = offer_type]_vars

\* C13: every Discount of a receipt returned by a checkout has an amount
\* <= 0, whatever the offer type and the registered argument.  (Only
\* THREE_FOR_TWO and TEN_PERCENT_DISCOUNT offers ever put a Discount in a
\* returned receipt: a checkout that meets an N-for-amount offer raises.)
C13_DiscountsNotPositive ==
    (ret.op = Checkout /\ ret.raised = "")
        => \A i \in 1..Len(ret.value[1].discounts) :
               ret.value[1].discounts[i].discount_amount <= 0

\* a receipt with the Discount of a percentage above 100
C13_Witness ==
    /\ ret.op = Checkout
    /\ ret.raised = ""
    /\ \E p \in Offered({"TEN_PERCENT_DISCOUNT"}) :
           /\ offers[p].argument > PercentBase
           /\ \E i \in DiscountsFor(ret.value[1], p) :
                  ret.value[1].discounts[i].discount_amount < 0

\* C14: a checkout leaves the cart's entries, its aggregated quantities, the
\* offers and the catalog as they were, and a checkout that follows a
\* checkout directly (nothing modified in between) has the same outcome: the
\* same line items, the same discounts and the same total_price().
C14_CheckoutIsPure ==
    [][ret'.op = Checkout
          => /\ items' = items
             /\ product_quantities' = product_quantities
             /\ offers' = offers
             /\ catalog' = catalog
             /\ ret.op = Checkout
                    => /\ ret' = ret
                       /\ ret.raised = ""
                              => total_price(ret'.value[1]) = total_price(ret.value[1])]_vars

\* a returned receipt with two line items and a discount
C14_Witness ==
    /\ ret.op = Checkout
    /\ ret.raised = ""
    /\ Len(ret.value[1].items) = 2
    /\ ret.value[1].discounts # <<>>

\* the distinct products of its, in the order each was first added
RECURSIVE FirstSeen(_)
FirstSeen(its) ==
    IF its = <<>> THEN <<>>
    ELSE LET before == FirstSeen(SubSeq(its, 1, Len(its) - 1))
             p == its[Len(its)].product IN
         IF \E i \in 1..Len(before) : before[i] = p THEN before ELSE Append(before, p)

\* the (product, amount) of the discounts the rules give for the products ps,
\* in that order: one for each product with a registered, applicable offer
RECURSIVE ExpectedDiscounts(_)
ExpectedDiscounts(ps) ==
    IF ps = <<>> THEN <<>>
    ELSE LET p == Head(ps)
             q == QuantityOf(items, p) IN
         (IF p \in DOMAIN offers /\ Applies(offers[p], q)
          THEN <<[product |-> p, discount_amount |-> Amount(offers[p], q, catalog[p])]>>
          ELSE <<>>) \o ExpectedDiscounts(Tail(ps))

\* C15: product_quantities iterates the products in first-seen order, and the
\* discounts of a returned receipt are exactly, in that order, the discount of
\* each product that has a registered and applicable offer, and nothing for
\* the other products.
C15_DiscountsInFirstSeenOrder ==
    /\ [i \in 1..Len(product_quantities) |-> product_quantities[i].key] = FirstSeen(items)
    /\ (ret.op = Checkout /\ ret.raised = "")
           => [i \in 1..Len(ret.value[1].discounts) |->
                   [product |-> ret.value[1].discounts[i].product,
                    discount_amount |-> ret.value[1].discounts[i].discount_amount]]
                  = ExpectedDiscounts(FirstSeen(items))

====
